---- MODULE Spec2Model ----
(***************************************************************************)
(* Half-edge construction of fealpy/mesh/HalfEdgeMesh3d.py.                *)
(*                                                                         *)
(* HalfEdgeMesh3d.from_mesh turns a conventional mesh (face array,         *)
(* face-to-cell adjacency, boundary flags) into the (NHE, 7) halfedge      *)
(* array by a fixed sequence of whole-array assignments; each assignment   *)
(* group is one action here, in program order.  Arrays are functions on    *)
(* 0..n-1, rows of halfedge are functions on the column numbers 0..6 of    *)
(* the docstring (lines 11-22).                                            *)
(*                                                                         *)
(* The file under src/ has tokens Python rejects (line 107 lacks a "]",    *)
(* line 98 reads facets.dtype, line 116 reads cls, line 132 reads NC); the *)
(* model follows the array algorithm those lines spell out: lexsort on     *)
(* (edge[:,0], edge[:,1], edge[:,2]), NC the mesh's cell count.            *)
(***************************************************************************)
EXTENDS Integers, Sequences, FiniteSets, TLC

\* Bound: number of cells of the input meshes (a chain of 1..MaxNC cells).
MaxNC == 2

VARIABLES
    pc,         \* position inside from_mesh / __init__
    mesh,       \* the conventional mesh handed to from_mesh (values at entry)
    face2cell,  \* the array mesh.ds.face_to_cell() returned (line 74)
    halfedge,   \* the (NHE, 7) array of line 62
    edge,       \* the (NHE, 3) key array of line 98
    ds,         \* HalfEdgeMesh3dDataStructure fields set by reinit
    attr,       \* instance attribute name -> dict object id (lines 33-38)
    heap        \* dict object id -> dict contents

vars == <<pc, mesh, face2cell, halfedge, edge, ds, attr, heap>>

----------------------------------------------------------------------------
(* The conventional meshes given to from_mesh                              *)

\* local faces of one cell, as node positions inside the cell
LocalFace(kind) ==
    IF kind = "tet"
    THEN << <<1, 2, 3>>, <<0, 3, 2>>, <<0, 1, 3>>, <<0, 2, 1>> >>
    ELSE << <<0, 3, 2, 1>>, <<4, 5, 6, 7>>, <<0, 4, 7, 3>>,
            <<1, 2, 6, 5>>, <<0, 1, 5, 4>>, <<2, 3, 7, 6>> >>

CellNodes(kind) == IF kind = "tet" THEN 4 ELSE 8

\* node offset between consecutive cells of the chain: the first value makes
\* neighbours share a face, the second makes them share one edge only
Strides(kind) == IF kind = "tet" THEN {1, 2} ELSE {4, 6}

\* A chain of nc cells; cell c has nodes c*stride + 0..CellNodes-1.  Faces are
\* the distinct node sets of the cells' local faces, in order of first
\* occurrence, each with the node order of its first occurrence rotated by rot;
\* face2cell[f] = (first cell, last cell) holding f, equal on a boundary face.
BuildMesh(kind, nc, stride, rot) ==
    LET lf    == LocalFace(kind)
        NFC   == Len(lf)
        FE    == Len(lf[1])
        T     == 0 .. (nc * NFC - 1)
        tf    == [t \in T |-> [j \in 0 .. (FE - 1) |->
                     (t \div NFC) * stride + lf[(t % NFC) + 1][((j + rot) % FE) + 1]]]
        nodes == [t \in T |-> {tf[t][j] : j \in 0 .. (FE - 1)}]
        firsts == {t \in T : \A u \in T : nodes[u] = nodes[t] => u >= t}
        last  == [t \in T |-> CHOOSE u \in T : /\ nodes[u] = nodes[t]
                                                /\ \A w \in T : nodes[w] = nodes[t] => w <= u]
        NF    == Cardinality(firsts)
        tOf   == [f \in 0 .. (NF - 1) |->
                     CHOOSE t \in firsts : Cardinality({u \in firsts : u < t}) = f]
        face  == [f \in 0 .. (NF - 1) |-> tf[tOf[f]]]
        f2c   == [f \in 0 .. (NF - 1) |->
                     [c \in 0 .. 1 |-> IF c = 0 THEN tOf[f] \div NFC
                                                ELSE last[tOf[f]] \div NFC]]
        edges == {{face[f][j], face[f][(j + 1) % FE]} :
                     f \in 0 .. (NF - 1), j \in 0 .. (FE - 1)}
    IN  [NN |-> stride * (nc - 1) + CellNodes(kind),
         NE |-> Cardinality(edges),
         NF |-> NF,
         NC |-> nc,
         FE |-> FE,
         face |-> face,
         face2cell |-> f2c,
         isBdFace |-> [f \in 0 .. (NF - 1) |-> f2c[f][0] = f2c[f][1]]]

Meshes ==
    UNION { UNION { { BuildMesh(kind, nc, s, rot) :
                        s \in Strides(kind),
                        rot \in 0 .. (Len(LocalFace(kind)[1]) - 1) } :
                    nc \in 1 .. MaxNC } :
            kind \in {"tet", "hex"} }

----------------------------------------------------------------------------
(* Column accessors of the halfedge array (docstring, lines 11-22)         *)

Dest(he, i)   == he[i][0]
Face(he, i)   == he[i][1]
Cell(he, i)   == he[i][2]
Nxt(he, i)    == he[i][3]
Prv(he, i)    == he[i][4]
DualCF(he, i) == he[i][5]
DualSC(he, i) == he[i][6]

\* halfedge[:, c] = vals
SetCol(he, c, vals) == [i \in DOMAIN he |-> [he[i] EXCEPT ![c] = vals[i]]]

\* the face and the position inside the face of half-edge i (flat order of
\* an (NF, FE) array written into the slice 0::2 or 1::2)
FaceOf(i, FE) == (i \div 2) \div FE
PosOf(i, FE)  == (i \div 2) % FE

----------------------------------------------------------------------------
(* from_mesh, stage by stage                                               *)

NHE(m) == 2 * m.NF * m.FE

\* line 62: np.zeros((NHE, 7))
Zeros(m) == [i \in 0 .. (NHE(m) - 1) |-> [c \in 0 .. 6 |-> 0]]

\* lines 64-67: idx0 = arange(FE); idx1 = idx0 rotated right by one
Idx0(FE) == [j \in 0 .. (FE - 1) |-> j]

Idx1Mut(FE) == [j \in 0 .. (FE - 1) |-> IF j = FE - 1 THEN Idx0(FE)[0] ELSE Idx0(FE)[j + 1]]

Idx1(FE) == [j \in 0 .. (FE - 1) |-> IF j = 0 THEN Idx0(FE)[FE - 1] ELSE Idx0(FE)[j - 1]]

\* lines 68-69: destination nodes
AssignDest(he, face, FE) ==
    SetCol(he, 0,
        [i \in DOMAIN he |->
            IF i % 2 = 0 THEN face[FaceOf(i, FE)][Idx0(FE)[PosOf(i, FE)]]
                         ELSE face[FaceOf(i, FE)][Idx1(FE)[PosOf(i, FE)]]])

\* lines 71-72: face index; the odd rows copy the even rows
AssignFace(he, FE) ==
    LET ev == SetCol(he, 1, [i \in DOMAIN he |->
                  IF i % 2 = 0 THEN FaceOf(i, FE) ELSE he[i][1]])
    IN  SetCol(ev, 1, [i \in DOMAIN ev |->
                  IF i % 2 = 1 THEN ev[i - 1][1] ELSE ev[i][1]])

\* line 76: lCell = face2cell[:, 0] + 1 (a new array)
LCell(f2c) == [f \in DOMAIN f2c |-> f2c[f][0] + 1]

\* lines 77-79: rCell is the column face2cell[:, 1] itself, overwritten in place
RCellMut(f2c, isBd) == [f \in DOMAIN f2c |-> IF isBd[f] THEN 0 ELSE f2c[f][1]]

RCell(f2c, isBd) == [f \in DOMAIN f2c |-> IF isBd[f] THEN 0 ELSE f2c[f][1] + 1]

\* what lines 78-79 leave in the face2cell array
Face2CellAfter(f2c, isBd) ==
    [f \in DOMAIN f2c |-> [f2c[f] EXCEPT ![1] = RCell(f2c, isBd)[f]]]

\* lines 80-81: cell of the even rows from lCell, of the odd rows from rCell
AssignCell(he, lCell, rCell, FE) ==
    SetCol(he, 2,
        [i \in DOMAIN he |->
            IF i % 2 = 0 THEN lCell[FaceOf(i, FE)] ELSE rCell[FaceOf(i, FE)]])

\* lines 84-85: dual half-edge across the face
CrossDualMut(he) ==
    SetCol(he, 5, [i \in DOMAIN he |-> IF i % 2 = 0 THEN i + 1 ELSE i])

CrossDual(he) ==
    SetCol(he, 5, [i \in DOMAIN he |-> IF i % 2 = 0 THEN i + 1 ELSE i - 1])

\* line 90: nex = np.r_[range(1, FE), 0]
Nex(FE) == [j \in 0 .. (FE - 1) |-> IF j = FE - 1 THEN 0 ELSE j + 1]

\* lines 87-93: hidx0, hidx1 are column 5 of the even and of the odd rows,
\* reshaped (NF, FE); next is their columns permuted by nex
AssignNext(he, FE) ==
    LET NF    == Cardinality(DOMAIN he) \div (2 * FE)
        hidx0 == [f \in 0 .. (NF - 1) |-> [j \in 0 .. (FE - 1) |-> he[2 * (f * FE + j)][5]]]
        hidx1 == [f \in 0 .. (NF - 1) |-> [j \in 0 .. (FE - 1) |-> he[2 * (f * FE + j) + 1][5]]]
    IN  SetCol(he, 3,
            [i \in DOMAIN he |->
                IF i % 2 = 0 THEN hidx0[FaceOf(i, FE)][Nex(FE)[PosOf(i, FE)]]
                             ELSE hidx1[FaceOf(i, FE)][Nex(FE)[PosOf(i, FE)]]])

\* line 95: halfedge[halfedge[:, 3], 4] = range(NHE); a row no next points to
\* keeps its value, a row several point to keeps the last one written
AssignPrevMut(he) ==
    SetCol(he, 4, [t \in DOMAIN he |-> he[he[t][3]][3]])

AssignPrev(he) ==
    SetCol(he, 4,
        [t \in DOMAIN he |->
            LET src == {i \in DOMAIN he : he[i][3] = t}
            IN  IF src = {} THEN he[t][4]
                ELSE CHOOSE i \in src : \A k \in src : k <= i])

\* lines 98-106: (destination, destination of prev, cell), the two nodes
\* swapped where the first is the larger
EdgeKeys(he) ==
    [i \in DOMAIN he |->
        LET e0 == he[i][0]
            e1 == he[he[i][4]][0]
        IN  [c \in 0 .. 2 |->
                IF c = 0 THEN (IF e0 > e1 THEN e1 ELSE e0)
                ELSE IF c = 1 THEN (IF e0 > e1 THEN e0 ELSE e1)
                ELSE he[i][2]]]

\* row a sorts before row b under np.lexsort((e[:,0], e[:,1], e[:,2])): the
\* last key is the primary one, ties keep the index order
SortsBefore(e, a, b) ==
    \/ e[a][2] < e[b][2]
    \/ e[a][2] = e[b][2] /\ e[a][1] < e[b][1]
    \/ e[a][2] = e[b][2] /\ e[a][1] = e[b][1] /\ e[a][0] < e[b][0]
    \/ e[a][2] = e[b][2] /\ e[a][1] = e[b][1] /\ e[a][0] = e[b][0] /\ a < b

\* line 107: the sorted order, as the array of row indices
Lexsort(e) ==
    LET pos == [i \in DOMAIN e |-> Cardinality({j \in DOMAIN e : SortsBefore(e, j, i)})]
    IN  [p \in DOMAIN e |-> CHOOSE i \in DOMAIN e : pos[i] = p]

\* lines 107-109: idx = lexsort(...).reshape(-1, 2); the two rows of each pair
\* become each other's column 6
SameCellDualMut(he, e) ==
    LET order == Lexsort(e)
    IN  SetCol(he, 6,
            [i \in DOMAIN he |->
                LET p == CHOOSE q \in DOMAIN order : order[q] = i
                IN  IF p % 2 = 0 THEN order[p + 1] ELSE i])

SameCellDual(he, e) ==
    LET order == Lexsort(e)
    IN  SetCol(he, 6,
            [i \in DOMAIN he |->
                LET p == CHOOSE q \in DOMAIN order : order[q] = i
                IN  IF p % 2 = 0 THEN order[p + 1] ELSE order[p - 1]])

\* max(halfedge[:, 0])
MaxDest(he) == CHOOSE n \in {he[i][0] : i \in DOMAIN he} : \A i \in DOMAIN he : he[i][0] <= n

\* lines 125-139: reinit; the keyword NN is << >> when omitted (None) and
\* <<n>> when given
Reinit(he, subdomain, NN, NE, NF, NC) ==
    [NN |-> IF NN = << >> THEN MaxDest(he) ELSE NN[1],
     NE |-> NE, NC |-> NC, NF |-> NF,
     halfedge |-> he,
     subdomain |-> subdomain,
     hcell |-> [c \in 0 .. (NC - 1) |-> 0],
     hface |-> [f \in 0 .. (NF - 1) |-> 0]]

----------------------------------------------------------------------------
(* The attribute tables of an instance (lines 33-44)                       *)

Names == {"halfedgedata", "celldata", "nodedata", "edgedata", "facedata", "meshdata"}
Keys  == {"dof", "x"}
Vals  == {"u", "v"}

EmptyDict == [k \in {} |-> "u"]

\* lines 33-38: five new dicts; facedata is bound to the edgedata object
InitAttrMut ==
    [n \in Names |->
        CASE n = "halfedgedata" -> 1
          [] n = "celldata"     -> 2
          [] n = "nodedata"     -> 3
          [] n = "edgedata"     -> 4
          [] n = "facedata"     -> 6
          [] n = "meshdata"     -> 5]

InitAttr ==
    [n \in Names |->
        CASE n = "halfedgedata" -> 1
          [] n = "celldata"     -> 2
          [] n = "nodedata"     -> 3
          [] n = "edgedata"     -> 4
          [] n = "facedata"     -> 4
          [] n = "meshdata"     -> 5]

\* d[k] = v
SetItem(d, k, v) == [x \in (DOMAIN d) \cup {k} |-> IF x = k THEN v ELSE d[x]]

\* del d[k]
DelItem(d, k) == [x \in (DOMAIN d) \ {k} |-> d[x]]

\* lines 33-44: the dict objects after __init__; nodedata holds 'dof'
InitHeap(at) ==
    [o \in {at[n] : n \in Names} |->
        IF o = at["nodedata"] THEN SetItem(EmptyDict, "dof", "u") ELSE EmptyDict]

\* the table seen through an attribute name
Table(n) == heap[attr[n]]

----------------------------------------------------------------------------
(* Actions                                                                 *)

Init ==
    /\ mesh \in Meshes
    /\ pc = "begin"
    /\ face2cell = mesh.face2cell
    /\ halfedge = << >>
    /\ edge = << >>
    /\ ds = << >>
    /\ attr = << >>
    /\ heap = << >>

\* lines 60-72
Destination ==
    /\ pc = "begin"
    /\ halfedge' = AssignFace(AssignDest(Zeros(mesh), mesh.face, mesh.FE), mesh.FE)
    /\ pc' = "dest"
    /\ UNCHANGED <<mesh, face2cell, edge, ds, attr, heap>>

\* lines 74-81
CellAssignment ==
    /\ pc = "dest"
    /\ halfedge' = AssignCell(halfedge, LCell(face2cell),
                              RCell(face2cell, mesh.isBdFace), mesh.FE)
    /\ face2cell' = Face2CellAfter(face2cell, mesh.isBdFace)
    /\ pc' = "cell"
    /\ UNCHANGED <<mesh, edge, ds, attr, heap>>

\* lines 83-85
CrossFaceDual ==
    /\ pc = "cell"
    /\ halfedge' = CrossDual(halfedge)
    /\ pc' = "dual"
    /\ UNCHANGED <<mesh, face2cell, edge, ds, attr, heap>>

\* lines 87-93
NextLinks ==
    /\ pc = "dual"
    /\ halfedge' = AssignNext(halfedge, mesh.FE)
    /\ pc' = "next"
    /\ UNCHANGED <<mesh, face2cell, edge, ds, attr, heap>>

\* line 95
PrevLinks ==
    /\ pc = "next"
    /\ halfedge' = AssignPrev(halfedge)
    /\ pc' = "prev"
    /\ UNCHANGED <<mesh, face2cell, edge, ds, attr, heap>>

\* lines 98-106
BuildEdge ==
    /\ pc = "prev"
    /\ edge' = EdgeKeys(halfedge)
    /\ pc' = "edge"
    /\ UNCHANGED <<mesh, face2cell, halfedge, ds, attr, heap>>

\* lines 107-109
SameCellPairing ==
    /\ pc = "edge"
    /\ halfedge' = SameCellDual(halfedge, edge)
    /\ pc' = "pair"
    /\ UNCHANGED <<mesh, face2cell, edge, ds, attr, heap>>

\* lines 111-116, 25-46, 122-139: the instance is built and returned
Construct ==
    /\ pc = "pair"
    /\ ds' = Reinit(halfedge, [c \in 0 .. mesh.NC |-> 0],
                    <<mesh.NN>>, mesh.NE, mesh.NF, mesh.NC)
    /\ attr' = InitAttr
    /\ heap' = InitHeap(InitAttr)
    /\ pc' = "done"
    /\ UNCHANGED <<mesh, face2cell, halfedge, edge>>

\* obj.<name>[k] = v on the returned instance
WriteItem ==
    /\ pc = "done"
    /\ \E n \in Names, k \in Keys, v \in Vals :
           heap' = [heap EXCEPT ![attr[n]] = SetItem(@, k, v)]
    /\ UNCHANGED <<pc, mesh, face2cell, halfedge, edge, ds, attr>>

\* del obj.<name>[k] on the returned instance (a missing key raises KeyError
\* and changes nothing)
DeleteItem ==
    /\ pc = "done"
    /\ \E n \in Names, k \in Keys :
           /\ k \in DOMAIN heap[attr[n]]
           /\ heap' = [heap EXCEPT ![attr[n]] = DelItem(@, k)]
    /\ UNCHANGED <<pc, mesh, face2cell, halfedge, edge, ds, attr>>

\* lines 125-139: ds.reinit(halfedge, subdomain, NE=NE, NF=NF) on the store of
\* the returned instance, NN left out
ReinitDerived ==
    /\ pc = "done"
    /\ ds' = Reinit(ds.halfedge, ds.subdomain, << >>, ds.NE, ds.NF, ds.NC)
    /\ UNCHANGED <<pc, mesh, face2cell, halfedge, edge, attr, heap>>

Next ==
    \/ Destination
    \/ CellAssignment
    \/ CrossFaceDual
    \/ NextLinks
    \/ PrevLinks
    \/ BuildEdge
    \/ SameCellPairing
    \/ Construct
    \/ ReinitDerived

Spec == Init /\ [][Next]_vars

\* one instance, built from a single tetrahedron, and its attribute tables
InitData ==
    /\ Init
    /\ mesh = BuildMesh("tet", 1, 1, 0)

NextData ==
    \/ Next
    \/ WriteItem
    \/ DeleteItem

SpecData == InitData /\ [][NextData]_vars

----------------------------------------------------------------------------
(* Properties                                                              *)

HE == DOMAIN halfedge

AfterCell == pc \in {"cell", "dual", "next", "prev", "edge", "pair", "done"}
AfterDual == pc \in {"dual", "next", "prev", "edge", "pair", "done"}
AfterNext == pc \in {"next", "prev", "edge", "pair", "done"}
AfterPrev == pc \in {"prev", "edge", "pair", "done"}
AfterPair == pc \in {"pair", "done"}

\* the half-edge reached from i by n steps along next (face-loop traversal)
RECURSIVE Walk(_, _, _)
Walk(he, i, n) == IF n = 0 THEN i ELSE Walk(he, Nxt(he, i), n - 1)

\* origin of a half-edge: the destination of its prev
Origin(he, i) == Dest(he, Prv(he, i))

\* number of half-edges carrying the (node pair, cell) key of i
KeyCount(i) == Cardinality({j \in DOMAIN edge : edge[j] = edge[i]})

\* the cells of the input are glued along faces (or there is one cell)
FaceConnected(m) == m.NC = 1 \/ \E f \in DOMAIN m.isBdFace : ~m.isBdFace[f]

\* C1: once prev is written, next and prev are mutual inverses on all
\* half-edge ids: prev[next[i]] = i and next[prev[i]] = i.
C1_NextPrevInverse ==
    AfterPrev =>
        \A i \in HE : /\ Prv(halfedge, Nxt(halfedge, i)) = i
                      /\ Nxt(halfedge, Prv(halfedge, i)) = i

C1_Witness ==
    /\ pc = "done"
    /\ mesh.NC = 2
    /\ mesh.FE = 3
    /\ \A i \in HE : Nxt(halfedge, i) # i /\ Prv(halfedge, Nxt(halfedge, i)) = i

\* C2: following next from any half-edge i returns to i after exactly FE
\* steps and not earlier, visiting FE distinct half-edges, for every FE.
C2_FaceLoopLength ==
    AfterNext =>
        \A i \in HE :
            /\ Walk(halfedge, i, mesh.FE) = i
            /\ \A n \in 1 .. (mesh.FE - 1) : Walk(halfedge, i, n) # i
            /\ Cardinality({Walk(halfedge, i, n) : n \in 0 .. (mesh.FE - 1)}) = mesh.FE

\* C3: next stays on one side of one face: next[i] has the face and the cell
\* of i.
C3_NextKeepsFaceAndCell ==
    AfterNext =>
        \A i \in HE : /\ Face(halfedge, Nxt(halfedge, i)) = Face(halfedge, i)
                      /\ Cell(halfedge, Nxt(halfedge, i)) = Cell(halfedge, i)

\* C4: dual_cross_face is an involution without fixed points; ids 2k and 2k+1
\* are each other's partner and carry the same face index.
C4_CrossDualInvolution ==
    AfterDual =>
        \A i \in HE :
            /\ DualCF(halfedge, DualCF(halfedge, i)) = i
            /\ DualCF(halfedge, i) # i
            /\ DualCF(halfedge, i) = (IF i % 2 = 0 THEN i + 1 ELSE i - 1)
            /\ Face(halfedge, DualCF(halfedge, i)) = Face(halfedge, i)

C4_Witness ==
    /\ pc = "done"
    /\ mesh.FE = 4
    /\ DualCF(halfedge, 0) = 1
    /\ DualCF(halfedge, 1) = 0
    /\ DualCF(halfedge, NHE(mesh) - 1) = NHE(mesh) - 2

\* C5: on an input whose cells are glued along faces, the same-cell dual j of
\* every half-edge i differs from i, lies in the cell of i and runs between
\* the endpoints of i in the opposite direction.
C5_SameCellDualReverses ==
    (AfterPair /\ FaceConnected(mesh)) =>
        \A i \in HE :
            LET j == DualSC(halfedge, i)
            IN  /\ j # i
                /\ Cell(halfedge, j) = Cell(halfedge, i)
                /\ Origin(halfedge, j) = Dest(halfedge, i)
                /\ Dest(halfedge, j) = Origin(halfedge, i)

\* C6: dual_same_cell applied twice gives back every half-edge whose key is
\* carried by exactly two half-edges.
C6_SameCellDualInvolution ==
    AfterPair =>
        \A i \in HE :
            KeyCount(i) = 2 => DualSC(halfedge, DualSC(halfedge, i)) = i

C6_Witness ==
    /\ pc = "pair"
    /\ \E i \in HE : /\ KeyCount(i) = 2
                     /\ DualSC(halfedge, i) # i
                     /\ edge[DualSC(halfedge, i)] = edge[i]
                     /\ DualSC(halfedge, DualSC(halfedge, i)) = i

\* C7: from_mesh returns a store only when every key is carried by exactly
\* two half-edges, and a returned store pairs only half-edges of equal key.
C7_NonManifoldRejected ==
    pc = "done" =>
        /\ \A i \in HE : KeyCount(i) = 2
        /\ \A i \in HE : edge[DualSC(halfedge, i)] = edge[i]

\* C8: the even half-edges of face f lie in cell l+1, the odd ones in cell 0
\* on a boundary face and in cell r+1 otherwise, (l, r) being the adjacency
\* of f at entry; with one cell every cross-face dual of a real-cell
\* half-edge is in cell 0, and the two sides of an interior face carry two
\* different nonzero cells.
C8_CellFields ==
    /\ AfterCell =>
           \A i \in HE :
               LET f == FaceOf(i, mesh.FE)
               IN  Cell(halfedge, i) =
                       (IF i % 2 = 0 THEN mesh.face2cell[f][0] + 1
                        ELSE IF mesh.isBdFace[f] THEN 0
                        ELSE mesh.face2cell[f][1] + 1)
    /\ AfterDual =>
           \A i \in HE :
               LET d == DualCF(halfedge, i)
               IN  /\ (mesh.NC = 1 /\ Cell(halfedge, i) # 0) => Cell(halfedge, d) = 0
                   /\ ~mesh.isBdFace[Face(halfedge, i)] =>
                          /\ Cell(halfedge, i) # 0
                          /\ Cell(halfedge, d) # 0
                          /\ Cell(halfedge, d) # Cell(halfedge, i)

C8_Witness ==
    /\ pc = "done"
    /\ mesh.NC = 2
    /\ \E i \in HE :
           /\ i % 2 = 1
           /\ ~mesh.isBdFace[Face(halfedge, i)]
           /\ Cell(halfedge, i) = 2
           /\ Cell(halfedge, DualCF(halfedge, i)) = 1

\* C9: in a constructed store hface[f] is a half-edge of face f, hcell[c] a
\* half-edge of the cell with index c (cell field c+1), and different faces
\* have different representatives.
C9_RepresentativesValid ==
    pc = "done" =>
        /\ \A f \in DOMAIN ds.hface : Face(ds.halfedge, ds.hface[f]) = f
        /\ \A c \in DOMAIN ds.hcell : Cell(ds.halfedge, ds.hcell[c]) = c + 1
        /\ \A f, g \in DOMAIN ds.hface : f # g => ds.hface[f] # ds.hface[g]

\* C10: edgedata and facedata always show the same keys and values, and a
\* step that changes what they show changes no other table.
C10_EdgeFaceAliased ==
    /\ [](pc = "done" => Table("edgedata") = Table("facedata"))
    /\ [][(pc = "done" /\ Table("edgedata")' # Table("edgedata")) =>
             \A n \in Names \ {"edgedata", "facedata"} : Table(n)' = Table(n)]_vars

C10_Witness ==
    /\ pc = "done"
    /\ "x" \in DOMAIN Table("facedata")
    /\ "dof" \in DOMAIN Table("edgedata")
    /\ Table("edgedata")["x"] = "v"
    /\ Table("facedata")["dof"] = "u"
    /\ "x" \notin DOMAIN Table("nodedata")
    /\ Table("celldata") = EmptyDict

AfterDest == pc \in {"dest", "cell", "dual", "next", "prev", "edge", "pair", "done"}

\* C11: for face f and position j, with k = f*FE + j, half-edge 2k has face f
\* and destination face[f][j], half-edge 2k+1 has face f and destination
\* face[f][(j-1) mod FE]; the array has exactly 2*NF*FE rows.
C11_DestinationAssignment ==
    AfterDest =>
        /\ HE = 0 .. (2 * mesh.NF * mesh.FE - 1)
        /\ \A f \in 0 .. (mesh.NF - 1), j \in 0 .. (mesh.FE - 1) :
               LET k == f * mesh.FE + j
               IN  /\ Face(halfedge, 2 * k) = f
                   /\ Dest(halfedge, 2 * k) = mesh.face[f][j]
                   /\ Face(halfedge, 2 * k + 1) = f
                   /\ Dest(halfedge, 2 * k + 1) =
                          mesh.face[f][(j + mesh.FE - 1) % mesh.FE]

C11_Witness ==
    /\ pc = "dest"
    /\ mesh.FE = 4
    /\ mesh.NC = 2
    /\ Dest(halfedge, 0) = mesh.face[0][0]
    /\ Dest(halfedge, 1) = mesh.face[0][3]
    /\ Dest(halfedge, 1) # Dest(halfedge, 0)
    /\ Face(halfedge, NHE(mesh) - 1) = mesh.NF - 1

\* the undirected edges read off the half-edges: the unordered pairs
\* {origin, destination}
RecoveredEdges(he) == {{Origin(he, i), Dest(he, i)} : i \in DOMAIN he}

\* C12: on an input whose cells are glued along faces, the number of distinct
\* unordered {origin, destination} pairs of the half-edges equals the edge
\* count NE the conventional mesh reports and the store keeps.
C12_EdgeCountRoundTrip ==
    (pc = "done" /\ FaceConnected(mesh)) =>
        /\ ds.NE = mesh.NE
        /\ Cardinality(RecoveredEdges(ds.halfedge)) = ds.NE

\* C13: the cross-face dual d of every half-edge i runs between the endpoints
\* of i in the opposite direction, and no half-edge starts where it ends.
C13_CrossDualReverses ==
    AfterPrev =>
        \A i \in HE :
            LET d == DualCF(halfedge, i)
            IN  /\ Dest(halfedge, d) = Origin(halfedge, i)
                /\ Origin(halfedge, d) = Dest(halfedge, i)
                /\ Origin(halfedge, i) # Dest(halfedge, i)

\* C15: in a store set up by reinit every destination node is below the
\* stored NN, whether NN was given or derived from the half-edge array.
C15_NodeCountBoundsDest ==
    pc = "done" =>
        \A i \in DOMAIN ds.halfedge : Dest(ds.halfedge, i) < ds.NN

\* the half-edge array a further call of from_mesh builds up to line 81 when
\* face_to_cell() hands out the array f2c
CellsOfCall(m, f2c) ==
    AssignCell(AssignFace(AssignDest(Zeros(m), m.face, m.FE), m.FE),
               LCell(f2c), RCell(f2c, m.isBdFace), m.FE)

\* C14: from_mesh leaves the face-to-cell array as it was at entry, so a
\* second call on the same mesh gives the same cell fields as the first.
C14_InputUnchanged ==
    pc = "done" =>
        /\ face2cell = mesh.face2cell
        /\ \A i \in HE :
               Cell(CellsOfCall(mesh, face2cell), i) = Cell(halfedge, i)

====
